---- MODULE Spec2Model ----
(***************************************************************************)
(* A model of arkane/qchem.py: the QchemLog extraction methods, each a     *)
(* scanning loop over the lines of one Q-Chem output file.                 *)
(*                                                                         *)
(* A line of the file is a record [k, v]: k names the banner or row shape  *)
(* the line carries (the substring the code searches for), v its numbers.  *)
(* A float is modelled by an integer; a value multiplied by a unit factor  *)
(* is the pair <<raw, n>>: raw times the factor to the power n.            *)
(***************************************************************************)
EXTENDS Integers, Sequences, FiniteSets, TLC

VARIABLES
    log,     \* the lines of the file at self.path
    op,      \* the method that is running, or "idle"
    pc,      \* the loop of that method the control is at
    pos,     \* the number of lines f.readline() has returned
    line,    \* the local variable `line`
    fopen,   \* whether the handle f of the latest call is open
    loc,     \* the other local variables of the running method
    res      \* per method, the outcome of its latest call

vars == <<log, op, pc, pos, line, fopen, loc, res>>

(***************************************************************************)
(* Bounds of the model.                                                    *)
(***************************************************************************)
MaxSegs == 3        \* segments (blocks or single lines) in a geometry log
MaxAtoms == 2       \* atom rows in one geometry block
MaxAtomsH == 3      \* atoms of the molecule of a Hessian log
MaxBlocks == 2      \* Hessian blocks in a Hessian log
MaxTail == 2        \* lines of a vibrational-analysis section after its frequency block
MaxFreqs == 4       \* frequency values in a frequency block
MaxScanLines == 4   \* lines of a scan log
MaxFreqLines == 3   \* lines of a transition-state log
MaxLines == 2       \* lines of a log of any shapes

----------------------------------------------------------------------------
(***************************************************************************)
(* Lines, tokens, markers.                                                 *)
(***************************************************************************)
L(k, v) == [k |-> k, v |-> v]

\* f.readline() returns '' at the end of the file
EOF == L("EOF", <<>>)

Num(x) == [num |-> TRUE, x |-> x]
Word(c) == [num |-> FALSE, x |-> c]
W == Word(0)

RECURSIVE NumToks(_)
NumToks(v) == IF v = <<>> THEN <<>> ELSE <<Num(Head(v))>> \o NumToks(Tail(v))

\* line.split(): the whitespace-separated tokens of each line shape
Tokens(l) ==
    CASE l.k = "sno"     -> <<W, W, W, W>>          \* Standard Nuclear Orientation (Angstroms)
      [] l.k = "text"    -> <<W, W, W, W, W>>       \* I  Atom  X  Y  Z
      [] l.k = "dash"    -> <<W>>                   \* ------------
      [] l.k = "atom"    -> <<Num(l.v[1]), Word(l.v[2]), Num(l.v[3]), Num(l.v[4]), Num(l.v[5])>>
      [] l.k = "jobtime" -> <<W, W, W, W, W>>       \* Total job time:  0.25s(wall), 0.13s(cpu)
      [] l.k = "hess"    -> <<W, W>>                \* Final Hessian.
      [] l.k = "nums"    -> NumToks(l.v)            \* 1  0.52  0.01 ...
      [] l.k = "mol"     -> <<W>>                   \* $molecule
      [] l.k = "vib"     -> <<W, W>>                \* VIBRATIONAL ANALYSIS
      [] l.k = "vfreq"   -> <<W, W, W>>             \* VIBRATIONAL FREQUENCIES (CM**-1)
      [] l.k = "freq"    -> <<W>> \o NumToks(l.v)   \*  Frequency:   -100.0  200.0  300.0
      [] l.k = "thermo"  -> <<W, W, W, W, Num(298), W, W, Num(1), W>>
      [] l.k = "thanks"  -> <<W, W, W, W, W, W, W>> \* Thank you very much for using Q-Chem.
      [] l.k = "mass"    -> <<W, W>> \o NumToks(l.v) \o <<W>>   \* Molecular Mass:  28.0 amu
      [] l.k = "eig"     -> <<W, W>> \o NumToks(l.v)   \* Eigenvalues --  0.0  1.0  1.0
      [] l.k = "symn"    -> <<W, W, W, W>> \o NumToks(l.v)   \* Rotational Symmetry Number is 2
      [] l.k = "fenergy" -> <<W, W, W>> \o NumToks(l.v)      \* Final energy is  -78.5
      [] l.k = "zpe"     -> <<W, W, W, W>> \o NumToks(l.v) \o <<W>>   \* Zero point vibrational energy:  30.0 kcal/mol
      [] l.k = "summary" -> <<W, W, W, W>>          \* Summary of potential scan:
      [] l.k = "scf"     -> <<W, W, W, W>>          \* SCF failed to converge
      [] OTHER           -> <<>>                    \* a blank line, or '' at the end of the file

\* 'marker' in line
Has(l, m) ==
    CASE m = "dash52" -> l.k = "dash" /\ l.v[1] >= 52
      [] m = "dash17" -> l.k = "dash" /\ l.v[1] >= 17
      [] m = "dash12" -> l.k = "dash" /\ l.v[1] >= 12
      [] m = " Frequency:" -> l.k = "freq"
      [] OTHER        -> l.k = m

Min(a, b) == IF a < b THEN a ELSE b

\* the line the n-th f.readline() from position p returns, and the position after it
LineAfter(p, n) == IF p + n <= Len(log) THEN log[p + n] ELSE EOF
PosAfter(p, n) == Min(p + n, Len(log))

Read(n) == /\ line' = LineAfter(pos, n)
           /\ pos' = PosAfter(pos, n)

Ops == {"getNumberOfAtoms", "loadForceConstantMatrix", "loadGeometry", "loadConformer",
        "loadEnergy", "loadZeroPointEnergy", "loadScanEnergies", "loadNegativeFrequency"}

\* an outcome: how the call ended, with what, whether its handle was closed
\* then, and the arguments it was called with
NotRun == [kind |-> "none", exc |-> "", val |-> <<>>, closed |-> TRUE, args |-> <<>>]
Returns(v, c) == [kind |-> "return", exc |-> "", val |-> v, closed |-> c, args |-> <<>>]
Raises(e, c) == [kind |-> "raise", exc |-> e, val |-> <<>>, closed |-> c, args |-> <<>>]

Ran(o) == res[o].kind # "none"
Returned(o) == res[o].kind = "return"

\* the method o ends with outcome r; the handle is left as it then is
Done(o, r) ==
    /\ op' = "idle" /\ pc' = "idle" /\ loc' = <<>>
    /\ pos' = 0 /\ line' = EOF
    /\ res' = [res EXCEPT ![o] = [r EXCEPT !.args = IF o = "loadConformer" THEN loc.args ELSE <<>>]]

\* a loop the code never leaves at the end of the file is followed this many
\* iterations past the last line
MaxOver == 2

----------------------------------------------------------------------------
(***************************************************************************)
(* getNumberOfAtoms                                                         *)
(***************************************************************************)
Call_getNumberOfAtoms ==
    /\ op = "idle"
    /\ op' = "getNumberOfAtoms" /\ pc' = "gna_outer"
    /\ loc' = [Natoms |-> 0]
    /\ fopen' = TRUE
    /\ line' = LineAfter(0, 1) /\ pos' = PosAfter(0, 1)
    /\ UNCHANGED <<log, res>>

\* F = None, and F = an array
NoneF == [isNone |-> TRUE, m |-> <<>>]
SomeF(m) == [isNone |-> FALSE, m |-> m]

\* for i in range(3): line = f.readline()
HeaderLines_two == 3 - 1
HeaderLines == 3

\* the condition of `while line != '' and Natoms == 0`
GnaOuterCond == line # EOF /\ loc.Natoms = 0

\* the condition of `while '-----...' not in line`
GnaInnerCond == ~Has(line, "dash52")

\* what follows the return of getNumberOfAtoms: its caller's next statements
GnaReturn ==
    IF op = "getNumberOfAtoms"
    THEN /\ Done("getNumberOfAtoms", Returns(loc.Natoms, TRUE))
         /\ fopen' = FALSE
    ELSE \* loadForceConstantMatrix, lines 88-93
         /\ loc' = [Natoms |-> loc.Natoms, Nrows |-> loc.Natoms * 3, F |-> NoneF]
         /\ fopen' = TRUE
         /\ line' = LineAfter(0, 1) /\ pos' = PosAfter(0, 1)
         /\ pc' = "fcm_outer"
         /\ UNCHANGED <<op, res>>

getNumberOfAtoms_outer ==
    /\ pc = "gna_outer"
    /\ IF GnaOuterCond
       THEN IF Has(line, "sno")
            THEN /\ Read(HeaderLines)
                 /\ pc' = "gna_inner"
                 /\ UNCHANGED <<op, loc, fopen, res>>
            ELSE /\ Read(1)
                 /\ UNCHANGED <<op, pc, loc, fopen, res>>
       ELSE GnaReturn
    /\ UNCHANGED log

getNumberOfAtoms_inner ==
    /\ pc = "gna_inner"
    /\ IF GnaInnerCond
       THEN /\ loc.Natoms < Len(log) + MaxOver
            /\ loc' = [loc EXCEPT !.Natoms = @ + 1]
            /\ Read(1)
            /\ UNCHANGED <<op, pc, fopen, res>>
       ELSE /\ Read(1)
            /\ pc' = "gna_outer"
            /\ UNCHANGED <<op, loc, fopen, res>>
    /\ UNCHANGED log

----------------------------------------------------------------------------
(***************************************************************************)
(* loadForceConstantMatrix                                                 *)
(***************************************************************************)
Call_loadForceConstantMatrix ==
    /\ op = "idle"
    \* Natoms = self.getNumberOfAtoms()
    /\ op' = "loadForceConstantMatrix" /\ pc' = "gna_outer"
    /\ loc' = [Natoms |-> 0]
    /\ fopen' = TRUE
    /\ line' = LineAfter(0, 1) /\ pos' = PosAfter(0, 1)
    /\ UNCHANGED <<log, res>>

\* int(math.ceil(Nrows / 6.0))
NChunks(Nrows) == (Nrows + 5) \div 6

\* data = f.readline().split() for matrix row j of chunk i, the banner being
\* the p-th line read
HessData(p, Nrows, i, j) == Tokens(LineAfter(p, i * (Nrows + 1) + 1 + (j + 1)))

\* the assignments F[j,i*6+k] = float(data[k+1]) that raise
HessBad(p, Nrows) ==
    UNION {{<<i, j, k>> : k \in {n \in 0 .. Len(HessData(p, Nrows, i, j)) - 2 :
                                   \/ ~HessData(p, Nrows, i, j)[n + 2].num
                                   \/ i * 6 + n >= Nrows}}
           : <<i, j>> \in (0 .. NChunks(Nrows) - 1) \X (0 .. Nrows - 1)}

LexLeq(s, t) ==
    \/ s[1] < t[1]
    \/ s[1] = t[1] /\ s[2] < t[2]
    \/ s[1] = t[1] /\ s[2] = t[2] /\ s[3] <= t[3]

\* the exception of the first assignment that raises
HessExc(p, Nrows) ==
    LET bad == HessBad(p, Nrows)
        t == CHOOSE s \in bad : \A u \in bad : LexLeq(s, u)
    IN  IF ~HessData(p, Nrows, t[1], t[2])[t[3] + 2].num THEN "ValueError" ELSE "IndexError"

\* F = numpy.zeros(...) and the loops over i, j, k: the last write to (j, c) stays
HessEntry(p, Nrows, j, c) ==
    LET writers == {i \in 0 .. NChunks(Nrows) - 1 :
                      /\ c - 6 * i >= 0
                      /\ c - 6 * i <= Len(HessData(p, Nrows, i, j)) - 2}
    IN  IF writers = {} THEN <<0, 0>>
        ELSE LET i == CHOOSE w \in writers : \A u \in writers : u <= w
             IN  <<HessData(p, Nrows, i, j)[c - 6 * i + 2].x, 0>>

HessBlock(p, Nrows) ==
    SomeF([j \in 0 .. Nrows - 1 |-> [c \in 0 .. Nrows - 1 |-> HessEntry(p, Nrows, j, c)]])

\* F *= 4.35974417e-18 / 5.291772108e-11**2
ConvertF(F) ==
    SomeF([j \in DOMAIN F.m |-> [c \in DOMAIN F.m[j] |-> <<F.m[j][c][1], F.m[j][c][2] + 1>>]])

\* the body of `if 'Final Hessian.' in line ...`: a new array replaces F
ReadHessian_keepFirst(F, p, Nrows) ==
    IF F.isNone THEN ConvertF(HessBlock(p, Nrows)) ELSE F
ReadHessian(F, p, Nrows) == ConvertF(HessBlock(p, Nrows))

loadForceConstantMatrix_outer ==
    /\ pc = "fcm_outer"
    /\ IF line = EOF
       THEN /\ Done("loadForceConstantMatrix", Returns(loc.F, TRUE))
            /\ fopen' = FALSE
       ELSE IF Has(line, "hess")
       THEN IF HessBad(pos, loc.Nrows) # {}
            THEN /\ Done("loadForceConstantMatrix", Raises(HessExc(pos, loc.Nrows), ~fopen))
                 /\ UNCHANGED fopen
            ELSE /\ loc' = [loc EXCEPT !.F = ReadHessian(loc.F, pos, loc.Nrows)]
                 /\ Read(NChunks(loc.Nrows) * (loc.Nrows + 1) + 1)
                 /\ UNCHANGED <<op, pc, fopen, res>>
       ELSE /\ Read(1)
            /\ UNCHANGED <<op, pc, loc, fopen, res>>
    /\ UNCHANGED log

----------------------------------------------------------------------------
(***************************************************************************)
(* loadGeometry                                                            *)
(***************************************************************************)
Call_loadGeometry ==
    /\ op = "idle"
    /\ op' = "loadGeometry" /\ pc' = "geo_read"
    /\ loc' = [lines |-> <<>>, atom |-> <<>>]
    /\ fopen' = TRUE
    /\ pos' = 0 /\ line' = EOF
    /\ UNCHANGED <<log, res>>

\* with open(self.path) as f: log = f.read().splitlines()
loadGeometry_read ==
    /\ pc = "geo_read"
    /\ loc' = [loc EXCEPT !.lines = log]
    /\ fopen' = FALSE
    /\ pos' = Len(log)
    /\ pc' = "geo_check"
    /\ UNCHANGED <<log, op, line, res>>

\* the loop over reversed(log) that looks for 'Total job time:'
CompletedJob_unchecked(lines) == TRUE
CompletedJob(lines) == \E i \in 1 .. Len(lines) : Has(lines[i], "jobtime")

loadGeometry_check ==
    /\ pc = "geo_check"
    /\ IF ~CompletedJob(loc.lines)
       THEN /\ Done("loadGeometry", Raises("InputError:incomplete", ~fopen))
            /\ UNCHANGED fopen
       ELSE /\ pc' = "geo_parse"
            /\ UNCHANGED <<op, pos, line, fopen, loc, res>>
    /\ UNCHANGED log

AllNum(data, from) == \A i \in from .. Len(data) : data[i].num

\* for line in log[(i+3):] : the rows up to the first line with '------------'
RECURSIVE ParseRows(_, _, _)
ParseRows(lines, j, acc) ==
    IF j > Len(lines) \/ Has(lines[j], "dash12")
    THEN [exc |-> "", atom |-> acc]
    ELSE LET data == Tokens(lines[j])
         IN  IF Len(data) < 2 THEN [exc |-> "IndexError", atom |-> acc]
             ELSE IF ~AllNum(data, 3) THEN [exc |-> "ValueError", atom |-> acc]
             ELSE ParseRows(lines, j + 1,
                     Append(acc, [sym |-> data[2],
                                  coord |-> [c \in 1 .. Len(data) - 2 |-> data[c + 2].x]]))

\* for i in reversed(xrange(len(log))): the last banner whose block has a row
RECURSIVE GeoScan(_, _)
GeoScan(lines, i) ==
    IF i = 0 THEN [exc |-> "", atom |-> <<>>]
    ELSE IF Has(lines[i], "sno")
         THEN LET r == ParseRows(lines, i + 3, <<>>)
              IN  IF r.exc # "" \/ r.atom # <<>> THEN r ELSE GeoScan(lines, i - 1)
         ELSE GeoScan(lines, i - 1)

\* get_element_mass(symbol): the mass and the atomic number of a known element
KnownElement(tok) == ~tok.num /\ tok.x \in {1, 6, 8}
ElementMass(tok) == CASE tok.x = 1 -> 1 [] tok.x = 6 -> 12 [] OTHER -> 16

loadGeometry_parse ==
    /\ pc = "geo_parse"
    /\ LET r == GeoScan(loc.lines, Len(loc.lines))
       IN  IF r.exc # ""
           THEN Done("loadGeometry", Raises(r.exc, ~fopen))
           ELSE IF \E a \in 1 .. Len(r.atom) : ~KnownElement(r.atom[a].sym)
           THEN Done("loadGeometry", Raises("ElementError", ~fopen))
           ELSE IF Len(r.atom) = 0
           THEN Done("loadGeometry", Raises("InputError:noatoms", ~fopen))
           ELSE Done("loadGeometry",
                     Returns([a \in 1 .. Len(r.atom) |->
                                 [coord |-> r.atom[a].coord,
                                  number |-> r.atom[a].sym.x,
                                  mass |-> ElementMass(r.atom[a].sym)]], ~fopen))
    /\ UNCHANGED <<log, fopen>>

----------------------------------------------------------------------------
(***************************************************************************)
(* loadConformer                                                           *)
(*                                                                         *)
(* The argument symmetry is <<>> for None and <<n>> for the number n.      *)
(* A mode is [type, x, symmetry]: x the masses, inertias or frequencies;   *)
(* an inertia is <<values, n>>, the values times (a0/1e-10)**2 n times.    *)
(***************************************************************************)
SymmetryArgs == {<<>>, <<3>>}
SpinArgs == {0, 3}

Call_loadConformer ==
    /\ op = "idle"
    /\ \E symmetry \in SymmetryArgs, spinMultiplicity \in SpinArgs, symfromlog \in BOOLEAN :
          loc' = [symmetry |-> symmetry, spinMultiplicity |-> spinMultiplicity,
                  symfromlog |-> symfromlog,
                  args |-> [symmetry |-> symmetry, spinMultiplicity |-> spinMultiplicity,
                            symfromlog |-> symfromlog],
                  freq |-> <<>>, mmass |-> <<>>, rot |-> <<>>, inertia |-> <<>>,
                  frequencies |-> <<>>]
    /\ op' = "loadConformer" /\ pc' = "cf_outer"
    /\ fopen' = TRUE
    /\ line' = LineAfter(0, 1) /\ pos' = PosAfter(0, 1)
    /\ UNCHANGED <<log, res>>

Mode(t, x, sym) == [type |-> t, x |-> x, symmetry |-> sym]

\* the last n tokens of data: data[-n:]
LastToks(data, n) == SubSeq(data, IF Len(data) > n THEN Len(data) - n + 1 ELSE 1, Len(data))

Xs(toks) == [i \in 1 .. Len(toks) |-> toks[i].x]

\* the block under `if len(inertia):`, lines 239-258: the locals after it,
\* with exc set when it raises
RotorBlock(l) ==
    IF Len(l.inertia) = 0 THEN [exc |-> "", l |-> l]
    ELSE LET sym == IF l.symmetry = <<>> THEN <<1>> ELSE l.symmetry
             rest == Tail(l.inertia)
         IN  IF l.inertia[1] = 0
             THEN IF Len(rest) < 2 THEN [exc |-> "IndexError", l |-> l]
                  ELSE [exc |-> "",
                        l |-> [l EXCEPT !.symmetry = sym, !.inertia = <<>>,
                                 !.rot = Append(@, Mode("LinearRotor",
                                                       <<<<rest[1], rest[2]>>, 1>>, sym[1]))]]
             ELSE IF Len(l.inertia) < 3 THEN [exc |-> "IndexError", l |-> l]
                  ELSE [exc |-> "",
                        l |-> [l EXCEPT !.symmetry = sym, !.inertia = <<>>,
                                 !.rot = Append(@, Mode("NonlinearRotor",
                                                       <<l.inertia, 1>>, sym[1]))]]

\* line = f.readline() at line 237 (the n-th read from here), then the rotor block
AfterSection(l, n) ==
    LET r == RotorBlock(l)
    IN  IF r.exc # ""
        THEN /\ Done("loadConformer", Raises(r.exc, ~fopen))
             /\ UNCHANGED fopen
        ELSE /\ loc' = r.l
             /\ Read(n)
             /\ pc' = "cf_outer"
             /\ UNCHANGED <<op, fopen, res>>

\* modes = mmass + rot + freq; return Conformer(...)
Conformer_withoutFreq(l) == [modes |-> l.mmass \o l.rot,
                             spinMultiplicity |-> l.spinMultiplicity]
Conformer(l) == [modes |-> l.mmass \o l.rot \o l.freq,
                 spinMultiplicity |-> l.spinMultiplicity]

loadConformer_outer ==
    /\ pc = "cf_outer"
    /\ IF line = EOF
       THEN /\ Done("loadConformer", Returns(Conformer(loc), TRUE))
            /\ fopen' = FALSE
       ELSE IF Has(line, "mol") /\ loc.spinMultiplicity = 0
       THEN LET data == Tokens(LineAfter(pos, 1))
            IN  IF Len(data) = 2 /\ ~data[2].num
                THEN /\ Done("loadConformer", Raises("ValueError", ~fopen))
                     /\ UNCHANGED fopen
                ELSE AfterSection(IF Len(data) = 2
                                  THEN [loc EXCEPT !.spinMultiplicity = data[2].x]
                                  ELSE loc, 2)
       ELSE IF Has(line, "vib")
       THEN /\ Read(1)
            /\ pc' = "cf_inner"
            /\ UNCHANGED <<op, loc, fopen, res>>
       ELSE AfterSection(loc, 1)
    /\ UNCHANGED log

\* the symmetry number the log gives is taken when symfromlog is set
TakesLogSymmetry(l) == l.symfromlog

loadConformer_inner ==
    /\ pc = "cf_inner"
    /\ LET data == Tokens(line)
       IN  IF line = EOF \/ Has(line, "thanks")
           THEN AfterSection(loc, 1)
           ELSE IF Has(line, "vfreq")
           THEN /\ loc' = [loc EXCEPT !.frequencies = <<>>]
                /\ pc' = "cf_freq"
                /\ UNCHANGED <<op, pos, line, fopen, res>>
           ELSE IF Has(line, "mass")
           THEN IF Len(data) < 3 \/ ~data[3].num
                THEN /\ Done("loadConformer",
                             Raises(IF Len(data) < 3 THEN "IndexError" ELSE "ValueError", ~fopen))
                     /\ UNCHANGED fopen
                ELSE /\ loc' = [loc EXCEPT !.mmass =
                                   Append(@, Mode("IdealGasTranslation", <<data[3].x>>, 0))]
                     /\ Read(1)
                     /\ UNCHANGED <<op, pc, fopen, res>>
           ELSE IF Has(line, "eig")
           THEN IF ~AllNum(LastToks(data, 3), 1)
                THEN /\ Done("loadConformer", Raises("ValueError", ~fopen))
                     /\ UNCHANGED fopen
                ELSE /\ loc' = [loc EXCEPT !.inertia = Xs(LastToks(data, 3))]
                     /\ Read(1)
                     /\ UNCHANGED <<op, pc, fopen, res>>
           ELSE IF Has(line, "symn") /\ TakesLogSymmetry(loc)
           THEN IF ~data[Len(data)].num
                THEN /\ Done("loadConformer", Raises("ValueError", ~fopen))
                     /\ UNCHANGED fopen
                ELSE /\ loc' = [loc EXCEPT !.symmetry = <<data[Len(data)].x>>]
                     /\ Read(1)
                     /\ UNCHANGED <<op, pc, fopen, res>>
           ELSE /\ Read(1)
                /\ UNCHANGED <<op, pc, loc, fopen, res>>
    /\ UNCHANGED log

\* the condition of `while 'STANDARD THERMODYNAMIC QUANTITIES AT' not in line`
FreqCond == ~Has(line, "thermo")

\* if frequencies[0] < 0.0: frequencies = frequencies[1:]
DropImaginary_none(fs) == fs
DropImaginary(fs) == IF fs[1] < 0 THEN Tail(fs) ELSE fs

loadConformer_freq ==
    /\ pc = "cf_freq"
    /\ LET data == Tokens(line)
           n == Len(data)
       IN  IF FreqCond
           THEN IF Has(line, " Frequency:") /\ n \in {2, 3, 4}
                THEN IF ~AllNum(LastToks(data, n - 1), 1)
                     THEN /\ Done("loadConformer", Raises("ValueError", ~fopen))
                          /\ UNCHANGED fopen
                     ELSE /\ loc' = [loc EXCEPT !.frequencies = @ \o Xs(LastToks(data, n - 1))]
                          /\ Read(1)
                          /\ UNCHANGED <<op, pc, fopen, res>>
                ELSE /\ Read(1)
                     /\ UNCHANGED <<op, pc, loc, fopen, res>>
           ELSE IF loc.frequencies = <<>>
                THEN /\ Done("loadConformer", Raises("IndexError", ~fopen))
                     /\ UNCHANGED fopen
                ELSE /\ loc' = [loc EXCEPT !.freq =
                                   Append(@, Mode("HarmonicOscillator",
                                                  DropImaginary(loc.frequencies), 0))]
                     /\ Read(2)
                     /\ pc' = "cf_inner"
                     /\ UNCHANGED <<op, fopen, res>>
    /\ UNCHANGED log

----------------------------------------------------------------------------
(***************************************************************************)
(* loadEnergy and loadZeroPointEnergy                                      *)
(*                                                                         *)
(* E0 and ZPE are <<>> for None.                                           *)
(***************************************************************************)
Call_loadEnergy ==
    /\ op = "idle"
    /\ op' = "loadEnergy" /\ pc' = "le_loop"
    /\ loc' = [E0 |-> <<>>]
    /\ fopen' = TRUE
    /\ line' = LineAfter(0, 1) /\ pos' = PosAfter(0, 1)
    /\ UNCHANGED <<log, res>>

\* float(line.split()[i]) raises: the token is missing, or is no number
TokenExc(data, i) ==
    IF Len(data) < i + 1 THEN "IndexError"
    ELSE IF ~data[i + 1].num THEN "ValueError" ELSE ""

loadEnergy_loop ==
    /\ pc = "le_loop"
    /\ LET data == Tokens(line)
       IN  IF line = EOF
           THEN /\ Done("loadEnergy",
                        IF loc.E0 # <<>> THEN Returns(loc.E0, TRUE)
                        ELSE Raises("InputError:noenergy", TRUE))
                /\ fopen' = FALSE
           ELSE IF Has(line, "fenergy")
           THEN IF TokenExc(data, 3) # ""
                THEN /\ Done("loadEnergy", Raises(TokenExc(data, 3), ~fopen))
                     /\ UNCHANGED fopen
                ELSE \* E0 = float(...) * constants.E_h * constants.Na
                     /\ loc' = [loc EXCEPT !.E0 = <<data[4].x, 1>>]
                     /\ Read(1)
                     /\ UNCHANGED <<op, pc, fopen, res>>
           ELSE /\ Read(1)
                /\ UNCHANGED <<op, pc, loc, fopen, res>>
    /\ UNCHANGED log

Call_loadZeroPointEnergy ==
    /\ op = "idle"
    /\ op' = "loadZeroPointEnergy" /\ pc' = "lz_loop"
    /\ loc' = [ZPE |-> <<>>]
    /\ fopen' = TRUE
    /\ line' = LineAfter(0, 1) /\ pos' = PosAfter(0, 1)
    /\ UNCHANGED <<log, res>>

loadZeroPointEnergy_loop ==
    /\ pc = "lz_loop"
    /\ LET data == Tokens(line)
       IN  IF line = EOF
           THEN /\ Done("loadZeroPointEnergy",
                        IF loc.ZPE # <<>> THEN Returns(loc.ZPE[1], TRUE)
                        ELSE Raises("InputError:nozpe", TRUE))
                /\ fopen' = FALSE
           ELSE IF Has(line, "zpe")
           THEN IF TokenExc(data, 4) # ""
                THEN /\ Done("loadZeroPointEnergy", Raises(TokenExc(data, 4), ~fopen))
                     /\ UNCHANGED fopen
                ELSE /\ loc' = [loc EXCEPT !.ZPE = <<data[5].x * 4184>>]
                     /\ Read(1)
                     /\ UNCHANGED <<op, pc, fopen, res>>
           ELSE /\ Read(1)
                /\ UNCHANGED <<op, pc, loc, fopen, res>>
    /\ UNCHANGED log

----------------------------------------------------------------------------
(***************************************************************************)
(* loadScanEnergies                                                        *)
(***************************************************************************)
Call_loadScanEnergies ==
    /\ op = "idle"
    /\ op' = "loadScanEnergies" /\ pc' = "ls_outer"
    /\ loc' = [Vlist |-> <<>>, angle |-> <<>>]
    /\ fopen' = TRUE
    /\ line' = LineAfter(0, 1) /\ pos' = PosAfter(0, 1)
    /\ UNCHANGED <<log, res>>

SeqMin(v) == CHOOSE m \in {v[i] : i \in 1 .. Len(v)} : \A i \in 1 .. Len(v) : m <= v[i]

\* lines 356-365, the handle closed: numpy.min of no value raises, and so does
\* the division by len(Vlist)-1 of one value; else the energies less their
\* minimum, times E_h*Na, and the angles k * 2*pi/(n-1) as <<k, n-1>>
ScanResult(Vlist) ==
    IF Len(Vlist) = 0 THEN Raises("ValueError", TRUE)
    ELSE IF Len(Vlist) = 1 THEN Raises("ZeroDivisionError", TRUE)
    ELSE Returns([Vlist |-> [i \in 1 .. Len(Vlist) |-> <<Vlist[i] - SeqMin(Vlist), 1>>],
                  angle |-> [i \in 1 .. Len(Vlist) |-> <<i - 1, Len(Vlist) - 1>>]], TRUE)

\* line = f.readline() at line 348 and the test for 'SCF failed to converge'
\* under it; then the condition of `while line != ''`
ScanNext ==
    IF Has(LineAfter(pos, 1), "scf") \/ LineAfter(pos, 1) = EOF
    THEN /\ Done("loadScanEnergies", ScanResult(loc.Vlist))
         /\ fopen' = FALSE
    ELSE /\ Read(1)
         /\ pc' = "ls_outer"
         /\ UNCHANGED <<op, loc, fopen, res>>

loadScanEnergies_outer ==
    /\ pc = "ls_outer"
    /\ IF line = EOF
       THEN /\ Done("loadScanEnergies", ScanResult(loc.Vlist))
            /\ fopen' = FALSE
       ELSE IF Has(line, "summary")
       THEN /\ Read(1)
            /\ pc' = "ls_inner"
            /\ UNCHANGED <<op, loc, fopen, res>>
       ELSE ScanNext
    /\ UNCHANGED log

\* values = [float(item) for item in line.split()]; values[0]; values[1]
ScanRowExc(data) ==
    IF ~AllNum(data, 1) THEN "ValueError"
    ELSE IF Len(data) < 2 THEN "IndexError" ELSE ""

loadScanEnergies_inner ==
    /\ pc = "ls_inner"
    /\ LET data == Tokens(line)
       IN  IF ~Has(line, "dash17")
           THEN IF ScanRowExc(data) # ""
                THEN /\ Done("loadScanEnergies", Raises(ScanRowExc(data), ~fopen))
                     /\ UNCHANGED fopen
                ELSE /\ loc' = [Vlist |-> Append(loc.Vlist, data[2].x),
                                angle |-> Append(loc.angle, data[1].x)]
                     /\ Read(1)
                     /\ UNCHANGED <<op, pc, fopen, res>>
           ELSE ScanNext
    /\ UNCHANGED log

----------------------------------------------------------------------------
(***************************************************************************)
(* loadNegativeFrequency                                                   *)
(***************************************************************************)
Call_loadNegativeFrequency ==
    /\ op = "idle"
    /\ op' = "loadNegativeFrequency" /\ pc' = "nf_loop"
    /\ loc' = <<>>
    /\ fopen' = TRUE
    /\ line' = LineAfter(0, 1) /\ pos' = PosAfter(0, 1)
    /\ UNCHANGED <<log, res>>

loadNegativeFrequency_loop ==
    /\ pc = "nf_loop"
    /\ LET data == Tokens(line)
       IN  IF line = EOF
           THEN \* f.close(); `frequency` was never assigned
                /\ Done("loadNegativeFrequency", Raises("UnboundLocalError", TRUE))
                /\ fopen' = FALSE
           ELSE IF Has(line, " Frequency:")
           THEN IF TokenExc(data, 1) # ""
                THEN /\ Done("loadNegativeFrequency", Raises(TokenExc(data, 1), ~fopen))
                     /\ UNCHANGED fopen
                ELSE \* break; f.close(); if frequency < 0
                     /\ Done("loadNegativeFrequency",
                             IF data[2].x < 0 THEN Returns(data[2].x, TRUE)
                             ELSE Raises("InputError:noimaginary", TRUE))
                     /\ fopen' = FALSE
           ELSE /\ Read(1)
                /\ UNCHANGED <<op, pc, loc, fopen, res>>
    /\ UNCHANGED log

----------------------------------------------------------------------------
(***************************************************************************)
(* Geometry logs: up to MaxSegs segments, each a geometry block of up to   *)
(* MaxAtoms rows, a block closed by a short row of dashes, or the Hessian  *)
(* block of one atom, and the completion banner at the end or not.         *)
(***************************************************************************)
Dash(n) == L("dash", <<n>>)
Atom(i) == L("atom", <<i, 6, 0, 0, i>>)

\* a block of n atom rows closed by a row of d dashes (d = 0: not closed)
GeomBlock(n, d) ==
    <<L("sno", <<>>), L("text", <<>>), Dash(64)>>
    \o [i \in 1 .. n |-> Atom(i)]
    \o (IF d = 0 THEN <<>> ELSE <<Dash(d)>>)

\* the Hessian of one atom: a header row and three matrix rows
HessOne(s) ==
    <<L("hess", <<>>), L("nums", <<1, 2, 3>>),
      L("nums", <<1, s, 0, 0>>), L("nums", <<2, 0, s, 0>>), L("nums", <<3, 0, 0, s>>)>>

GeomSegs ==
    {GeomBlock(n, 64) : n \in 0 .. MaxAtoms} \cup {GeomBlock(1, 16), HessOne(1)}

RECURSIVE SegLogs(_, _)
SegLogs(segs, n) ==
    IF n = 0 THEN {<<>>}
    ELSE LET shorter == SegLogs(segs, n - 1)
         IN  shorter \cup {l \o s : l \in shorter, s \in segs}

GeomLogs ==
    LET body == SegLogs(GeomSegs, MaxSegs)
    IN  body \cup {l \o <<L("jobtime", <<>>)>> : l \in body}

Idle ==
    /\ op = "idle" /\ pc = "idle" /\ pos = 0 /\ line = EOF
    /\ fopen = FALSE /\ loc = <<>>
    /\ res = [o \in Ops |-> NotRun]

InitGeom == log \in GeomLogs /\ Idle

\* each of the three methods is called once, in any order
NextGeom ==
    \/ ~Ran("getNumberOfAtoms") /\ Call_getNumberOfAtoms
    \/ getNumberOfAtoms_outer
    \/ getNumberOfAtoms_inner
    \/ ~Ran("loadForceConstantMatrix") /\ Call_loadForceConstantMatrix
    \/ loadForceConstantMatrix_outer
    \/ ~Ran("loadGeometry") /\ Call_loadGeometry
    \/ loadGeometry_read
    \/ loadGeometry_check
    \/ loadGeometry_parse

SpecGeom == InitGeom /\ [][NextGeom]_vars

----------------------------------------------------------------------------
(***************************************************************************)
(* Properties of the geometry methods.                                     *)
(***************************************************************************)
Banners == {b \in 1 .. Len(log) : log[b].k = "sno"}
NoJobTime == \A i \in 1 .. Len(log) : log[i].k # "jobtime"

\* the rows of the block under banner b when they are atom rows closed by a
\* delimiter of at least 52 dashes, and -1 otherwise
BlockSize(b) ==
    LET ends == {d \in b + 3 .. Len(log) :
                    /\ log[d].k = "dash" /\ log[d].v[1] >= 52
                    /\ \A j \in b + 3 .. d - 1 : log[j].k = "atom"}
    IN  IF ends = {} THEN -1 ELSE (CHOOSE d \in ends : TRUE) - (b + 3)

UniformBlocks == \E n \in 0 .. Len(log) : \A b \in Banners : BlockSize(b) = n

\* C1: a log with no 'Total job time:' line makes loadGeometry fail with the
\* log-incomplete error, with its handle released, whatever geometry block
\* the log holds; nothing is parsed before the completion check.
C1_IncompleteLogFails ==
    /\ (Ran("loadGeometry") /\ NoJobTime)
          => res["loadGeometry"] = Raises("InputError:incomplete", TRUE)
    /\ (pc \in {"geo_read", "geo_check"}) => loc.atom = <<>>

C1_Witness ==
    /\ NoJobTime
    /\ \E b \in Banners : BlockSize(b) >= 1
    /\ res["loadGeometry"] = Raises("InputError:incomplete", TRUE)

AtomCountsAgree ==
    /\ (Returned("getNumberOfAtoms") /\ Returned("loadGeometry"))
          => res["getNumberOfAtoms"].val = Len(res["loadGeometry"].val)
    /\ (Returned("getNumberOfAtoms") /\ Returned("loadForceConstantMatrix")
        /\ ~res["loadForceConstantMatrix"].val.isNone)
          => LET F == res["loadForceConstantMatrix"].val.m
             IN  /\ Cardinality(DOMAIN F) = 3 * res["getNumberOfAtoms"].val
                 /\ \A j \in DOMAIN F :
                       Cardinality(DOMAIN F[j]) = 3 * res["getNumberOfAtoms"].val

----------------------------------------------------------------------------
(***************************************************************************)
(* Hessian logs: the geometry block of n atoms, then up to MaxBlocks       *)
(* Hessian blocks in the layout Q-Chem prints for n atoms, chunks of 6     *)
(* columns, a line of text before each or not.                             *)
(***************************************************************************)
\* the value block s prints for row j, column c
HessValue(s, j, c) == s * 1000 + j * 20 + c

HessRow(s, Nrows, i, j) ==
    L("nums", <<j + 1>> \o [k \in 1 .. Min(6, Nrows - 6 * i) |-> HessValue(s, j, 6 * i + k - 1)])

HessChunk(s, Nrows, i) ==
    <<L("nums", [k \in 1 .. Min(6, Nrows - 6 * i) |-> 6 * i + k])>>
    \o [r \in 1 .. Nrows |-> HessRow(s, Nrows, i, r - 1)]

RECURSIVE HessChunks(_, _, _)
HessChunks(s, Nrows, n) ==
    IF n = 0 THEN <<>> ELSE HessChunks(s, Nrows, n - 1) \o HessChunk(s, Nrows, n - 1)

HessLines(s, n) == <<L("hess", <<>>)>> \o HessChunks(s, 3 * n, NChunks(3 * n))

HessSegs(n) ==
    {HessLines(s, n) : s \in 1 .. MaxBlocks}
    \cup {<<L("text", <<>>)>> \o HessLines(s, n) : s \in 1 .. MaxBlocks}

HessLogs ==
    UNION {{GeomBlock(n, 64) \o l : l \in SegLogs(HessSegs(n), MaxBlocks)}
           : n \in 1 .. MaxAtomsH}

InitHess == log \in HessLogs /\ Idle

NextHess ==
    \/ Call_loadForceConstantMatrix
    \/ getNumberOfAtoms_outer
    \/ getNumberOfAtoms_inner
    \/ loadForceConstantMatrix_outer

SpecHess == InitHess /\ [][NextHess]_vars

HessBanners == {b \in 1 .. Len(log) : log[b].k = "hess"}

\* C5: with one or more Hessian blocks in the log, the matrix returned is the
\* last block's: entry (j, 6*i + c) is the c-th column value of data row j of
\* chunk i of that block, times the unit factor once, and it has no other entry.
C5_LastHessian ==
    (Returned("loadForceConstantMatrix") /\ HessBanners # {}) =>
        LET F == res["loadForceConstantMatrix"].val
            b == CHOOSE x \in HessBanners : \A y \in HessBanners : y <= x
            n == Cardinality(DOMAIN F.m)
        IN  /\ ~F.isNone
            /\ n = 3 * BlockSize(1)
            /\ \A j \in 0 .. n - 1 :
                  /\ DOMAIN F.m[j] = 0 .. n - 1
                  /\ \A i \in 0 .. NChunks(n) - 1 : \A c \in 0 .. Min(6, n - 6 * i) - 1 :
                        F.m[j][6 * i + c] = <<log[b + i * (n + 1) + 1 + j + 1].v[c + 2], 1>>

C5_Witness ==
    /\ Returned("loadForceConstantMatrix")
    /\ Cardinality(HessBanners) >= 2
    /\ Cardinality(DOMAIN res["loadForceConstantMatrix"].val.m) > 6
    /\ \E b \in HessBanners : \E c \in HessBanners :
          b < c /\ log[b + 2].v[2] # log[c + 2].v[2]

----------------------------------------------------------------------------
(***************************************************************************)
(* Conformer logs: the $molecule block or not, the VIBRATIONAL ANALYSIS    *)
(* banner, a frequency block or not, and up to MaxTail lines among the     *)
(* mass, inertia, symmetry-number and thank-you lines.                     *)
(* Frequency logs: the banner and one frequency block of any MaxFreqs      *)
(* values or fewer, closed by the thermodynamics banner or not.            *)
(***************************************************************************)
RECURSIVE FreqRows(_)
FreqRows(fs) ==
    IF Len(fs) <= 3 THEN (IF fs = <<>> THEN <<>> ELSE <<L("freq", fs)>>)
    ELSE <<L("freq", SubSeq(fs, 1, 3))>> \o FreqRows(SubSeq(fs, 4, Len(fs)))

\* the block Q-Chem prints for the frequencies fs; closed: up to the line
\* after the thermodynamics banner
FreqBlock(fs, closed) ==
    <<L("vfreq", <<>>)>> \o FreqRows(fs)
    \o (IF closed THEN <<L("thermo", <<>>), L("text", <<>>)>> ELSE <<>>)

RECURSIVE SeqsUpTo(_, _)
SeqsUpTo(S, n) ==
    IF n = 0 THEN {<<>>}
    ELSE LET shorter == SeqsUpTo(S, n - 1)
         IN  shorter \cup {Append(q, x) : q \in shorter, x \in S}

TailLines ==
    {L("mass", <<28>>), L("eig", <<0, 5, 5>>), L("eig", <<4, 5, 6>>), L("eig", <<5, 5>>),
     L("symn", <<2>>), L("thanks", <<>>)}

ConfLogs ==
    {pre \o <<L("vib", <<>>)>> \o fb \o tl :
        pre \in {<<>>, <<L("mol", <<>>), L("nums", <<0, 2>>), L("text", <<>>)>>},
        fb \in {<<>>, FreqBlock(<<-1, 1, 2, 3>>, TRUE), FreqBlock(<<1, 2>>, TRUE)},
        tl \in SeqsUpTo(TailLines, MaxTail)}

VibLogs ==
    {<<L("vib", <<>>)>> \o FreqBlock(fs, closed) \o tl :
        fs \in SeqsUpTo({-1, 1}, MaxFreqs), closed \in BOOLEAN,
        tl \in {<<>>, <<L("thanks", <<>>)>>}}

InitConf == log \in ConfLogs /\ Idle
InitVib == log \in VibLogs /\ Idle

NextConf ==
    \/ Call_loadConformer
    \/ loadConformer_outer
    \/ loadConformer_inner
    \/ loadConformer_freq

SpecConf == InitConf /\ [][NextConf]_vars
SpecVib == InitVib /\ [][NextConf]_vars

----------------------------------------------------------------------------
(***************************************************************************)
(* Properties of loadConformer.                                            *)
(***************************************************************************)
Idx(k) == {i \in 1 .. Len(log) : log[i].k = k}

CF == res["loadConformer"]
ModesOf(t) == {i \in 1 .. Len(CF.val.modes) : CF.val.modes[i].type = t}
Rotors == ModesOf("LinearRotor") \cup ModesOf("NonlinearRotor")

\* the values of the Frequency lines from line i up to line t - 1
RECURSIVE FreqValues(_, _)
FreqValues(i, t) ==
    IF i >= t THEN <<>>
    ELSE (IF log[i].k = "freq" THEN log[i].v ELSE <<>>) \o FreqValues(i + 1, t)

\* the first thermodynamics banner after line f, or the end of the file
BlockEnd(f) ==
    LET ts == {t \in Idx("thermo") : t > f}
    IN  IF ts = {} THEN Len(log) + 1 ELSE CHOOSE t \in ts : \A u \in ts : t <= u

\* line i is read inside a vibrational-analysis section, by the section's
\* own loop: after the banner, before any thank-you line, not inside a
\* frequency block nor right after its closing banner
InSection(i) ==
    /\ \E a \in Idx("vib") : a < i /\ \A j \in a .. i : log[j].k # "thanks"
    /\ \A f \in Idx("vfreq") : ~(f < i /\ i <= BlockEnd(f) + 1)
    /\ \A m \in Idx("mol") : m + 1 \notin Idx("vib")

\* the log of the end-to-end scenario: one section whose frequency block
\* lists one negative then three positive values, one mass line and one
\* inertia line, of two values or of three values the first of them zero
ScenarioLog(twoValues) ==
    /\ \A k \in {"vib", "vfreq", "thermo", "mass", "eig"} : Cardinality(Idx(k)) = 1
    /\ Idx("symn") = {}
    /\ LET a == CHOOSE i \in Idx("vib") : TRUE
           f == CHOOSE i \in Idx("vfreq") : TRUE
           t == CHOOSE i \in Idx("thermo") : TRUE
           m == CHOOSE i \in Idx("mass") : TRUE
           e == CHOOSE i \in Idx("eig") : TRUE
           fs == FreqValues(f, t)
       IN  /\ a < f /\ f < t /\ Idx("freq") \subseteq f .. t
           /\ InSection(f) /\ InSection(m) /\ InSection(e)
           /\ Len(fs) = 4 /\ fs[1] < 0 /\ fs[2] > 0 /\ fs[3] > 0 /\ fs[4] > 0
           /\ IF twoValues THEN Len(log[e].v) = 2
              ELSE Len(log[e].v) = 3 /\ log[e].v[1] = 0

ScenarioModes ==
    /\ Returned("loadConformer")
    /\ Len(CF.val.modes) = 3
    /\ Cardinality(ModesOf("IdealGasTranslation")) = 1
    /\ \E r \in ModesOf("LinearRotor") : CF.val.modes[r].symmetry = 1
    /\ \E v \in ModesOf("HarmonicOscillator") : Len(CF.val.modes[v].x) = 3

C6_LogSymmetryAdopted ==
    LET given == CF.args.symmetry
        logs == {log[i].v[1] : i \in {j \in Idx("symn") : InSection(j)}}
    IN  (Returned("loadConformer") /\ logs # {}) =>
            \A r \in Rotors :
                IF given = <<>> THEN CF.val.modes[r].symmetry \in logs
                ELSE CF.val.modes[r].symmetry = given[1]

AllNonNegative ==
    \A v \in ModesOf("HarmonicOscillator") :
        \A k \in 1 .. Len(CF.val.modes[v].x) : CF.val.modes[v].x[k] >= 0

\* in every frequency block, from its banner to the next thermodynamics
\* banner, no value after the first is negative
NegativeOnlyFirst ==
    \A f \in Idx("vfreq") :
        LET fs == FreqValues(f, BlockEnd(f))
        IN  \A k \in 2 .. Len(fs) : fs[k] >= 0

\* C8 as claimed: whatever the values of the frequency block, the frequency
\* sets of a returned conformer hold no negative wavenumber.
C8_NonNegative == Returned("loadConformer") => AllNonNegative

\* C8 as amended: they hold none when no value after the first of a
\* frequency block is negative.
C8_NegativeOnlyFirst == (Returned("loadConformer") /\ NegativeOnlyFirst) => AllNonNegative

C8_Witness ==
    /\ Returned("loadConformer") /\ NegativeOnlyFirst
    /\ \E f \in Idx("vfreq") : FreqValues(f, BlockEnd(f))[1] < 0
    /\ \E v \in ModesOf("HarmonicOscillator") : Len(CF.val.modes[v].x) >= 2

----------------------------------------------------------------------------
(***************************************************************************)
(* Scan logs: any MaxScanLines lines or fewer among the scan banner, two   *)
(* table rows, the table's delimiter, the SCF failure and a text line.     *)
(* Transition-state logs: any MaxFreqLines lines or fewer among Frequency  *)
(* lines of a negative, a zero, positive and no value, and a text line.    *)
(***************************************************************************)
ScanLines ==
    {L("summary", <<>>), L("nums", <<0, 5>>), L("nums", <<180, 3>>), Dash(17),
     L("scf", <<>>), L("text", <<>>)}

ScanLogs == SeqsUpTo(ScanLines, MaxScanLines)

InitScan == log \in ScanLogs /\ Idle

NextScan ==
    \/ Call_loadScanEnergies
    \/ loadScanEnergies_outer
    \/ loadScanEnergies_inner

SpecScan == InitScan /\ [][NextScan]_vars

FreqLines ==
    {L("freq", <<-7, 1, 2>>), L("freq", <<0, 1>>), L("freq", <<1, 2, 3>>), L("freq", <<>>),
     L("text", <<>>)}

TsLogs == SeqsUpTo(FreqLines, MaxFreqLines)

InitTs == log \in TsLogs /\ Idle

NextTs ==
    \/ Call_loadNegativeFrequency
    \/ loadNegativeFrequency_loop

SpecTs == InitTs /\ [][NextTs]_vars

(***************************************************************************)
(* Any log: any MaxLines lines or fewer, each of any of the shapes the     *)
(* methods look for; one call of any method on it.                         *)
(***************************************************************************)
AnyLines ==
    {L("sno", <<>>), Atom(1), Dash(64), L("jobtime", <<>>), L("hess", <<>>),
     L("mol", <<>>), L("vib", <<>>), L("vfreq", <<>>), L("freq", <<-7, 1>>),
     L("thermo", <<>>), L("mass", <<28>>), L("eig", <<0, 5, 5>>), L("symn", <<2>>),
     L("fenergy", <<-78>>), L("fenergy", <<>>), L("zpe", <<30>>), L("zpe", <<>>),
     L("summary", <<>>), L("nums", <<0, 5>>), L("scf", <<>>), L("text", <<>>)}

AnyLogs == SeqsUpTo(AnyLines, MaxLines)

Init == log \in AnyLogs /\ Idle

\* no method has been called on the log yet
Fresh == \A o \in Ops : res[o].kind = "none"

Next ==
    \/ Fresh /\ Call_getNumberOfAtoms
    \/ Fresh /\ Call_loadForceConstantMatrix
    \/ Fresh /\ Call_loadGeometry
    \/ Fresh /\ Call_loadConformer
    \/ Fresh /\ Call_loadEnergy
    \/ Fresh /\ Call_loadZeroPointEnergy
    \/ Fresh /\ Call_loadScanEnergies
    \/ Fresh /\ Call_loadNegativeFrequency
    \/ getNumberOfAtoms_outer
    \/ getNumberOfAtoms_inner
    \/ loadForceConstantMatrix_outer
    \/ loadGeometry_read
    \/ loadGeometry_check
    \/ loadGeometry_parse
    \/ loadConformer_outer
    \/ loadConformer_inner
    \/ loadConformer_freq
    \/ loadEnergy_loop
    \/ loadZeroPointEnergy_loop
    \/ loadScanEnergies_outer
    \/ loadScanEnergies_inner
    \/ loadNegativeFrequency_loop

Spec == Init /\ [][Next]_vars

----------------------------------------------------------------------------
(***************************************************************************)
(* Properties of the other methods, and of all of them.                    *)
(***************************************************************************)
\* C3: loadNegativeFrequency ends in one of two ways on every log: when the
\* second token of the first line with ' Frequency:' is a non-negative number
\* it raises the no-imaginary-frequency InputError, and otherwise it returns
\* a negative value.
C3_TwoOutcomes ==
    LET r == res["loadNegativeFrequency"]
        first == CHOOSE i \in Idx("freq") : \A j \in Idx("freq") : i <= j
        nonNegative == /\ Idx("freq") # {}
                       /\ Len(log[first].v) >= 1
                       /\ log[first].v[1] >= 0
    IN  Ran("loadNegativeFrequency") =>
            IF nonNegative
            THEN r.kind = "raise" /\ r.exc = "InputError:noimaginary"
            ELSE r.kind = "return" /\ r.val < 0

\* the table rows before line s: the rows that follow a scan banner with
\* nothing but rows in between
TableRows(s) ==
    {j \in 1 .. s - 1 :
        /\ log[j].k = "nums"
        /\ \E b \in Idx("summary") : b < j /\ \A k \in b + 1 .. j : log[k].k = "nums"}

\* C7: on a log with a line 'SCF failed to converge', loadScanEnergies returns
\* without raising, and its profile has exactly the energies of the table
\* rows before that line.
C7_ScfStopsScan ==
    LET r == res["loadScanEnergies"]
        s == CHOOSE i \in Idx("scf") : \A j \in Idx("scf") : i <= j
    IN  (Ran("loadScanEnergies") /\ Idx("scf") # {}) =>
            /\ r.kind = "return"
            /\ Len(r.val.Vlist) = Cardinality(TableRows(s))

\* C9: every method has closed its handle when it returns or raises.
C9_HandleReleased == \A o \in Ops : Ran(o) => res[o].closed

\* the loop the control is at goes on
LoopContinues ==
    CASE pc = "gna_outer" -> GnaOuterCond
      [] pc = "gna_inner" -> GnaInnerCond
      [] pc = "cf_outer"  -> line # EOF
      [] pc = "cf_inner"  -> line # EOF /\ ~Has(line, "thanks")
      [] pc = "cf_freq"   -> FreqCond
      [] OTHER            -> FALSE

\* C10: in getNumberOfAtoms and loadConformer the end of the file ends every
\* scanning loop: once readline has returned '' no loop goes on.
C10_EofEndsLoops ==
    (op \in {"getNumberOfAtoms", "loadConformer"} /\ line = EOF) => ~LoopContinues

====
